---- MODULE Spec2Model ----
(***************************************************************************)
(* Model of aws/resource_aws_dms_endpoint.go: the Create, Read, Update and *)
(* Delete handlers of the DMS endpoint resource, the local resource data   *)
(* they work on, and the remote DMS control plane they call.               *)
(*                                                                         *)
(* Strings that the code inspects or converts (endpoint_type and           *)
(* extra_connection_attributes) are sequences of one-character strings;    *)
(* strings the code only copies are TLA+ strings.  A Go pointer field is   *)
(* the empty sequence (nil) or a one-element sequence holding its value.   *)
(***************************************************************************)
EXTENDS Integers, Sequences, FiniteSets, TLC

VARIABLES family, d, remote, request, calls, result, op, pc, attempts, before,
          changed, nextArn, deletedArns, afterDelete

vars == <<family, d, remote, request, calls, result, op, pc, attempts, before,
          changed, nextArn, deletedArns, afterDelete>>

(***************************************************************************)
(* Bounds of the model.                                                    *)
(***************************************************************************)
\* number of CreateEndpoint attempts that fit into the retry ceiling
MaxAttempts == 2
\* number of remote references the control plane hands out
MaxArns == 1

(***************************************************************************)
(* Character strings.                                                      *)
(***************************************************************************)
kCompressionType == <<"c", "o", "m", "p", "r", "e", "s", "s", "i", "o", "n", "T", "y", "p", "e">>
kCsvDelimiter == <<"c", "s", "v", "D", "e", "l", "i", "m", "i", "t", "e", "r">>
kCsvRowDelimiter == <<"c", "s", "v", "R", "o", "w", "D", "e", "l", "i", "m", "i", "t", "e", "r">>
tokCompressionType == <<"c", "o", "m", "p", "r", "e", "s", "s", "i", "o", "n", "t", "y", "p", "e">>
tokCsvDelimiter == <<"c", "s", "v", "d", "e", "l", "i", "m", "i", "t", "e", "r">>
tokCsvRowDelimiter == <<"c", "s", "v", "r", "o", "w", "d", "e", "l", "i", "m", "i", "t", "e", "r">>
kCompressionTypeAlt == <<"C", "o", "m", "p", "r", "e", "s", "s", "i", "o", "n", "T", "y", "p", "e">>
kCsvDelimiterAlt == <<"C", "S", "V", "D", "e", "l", "i", "m", "i", "t", "e", "r">>
kBogus == <<"b", "o", "g", "u", "s">>
vGZIP == <<"G", "Z", "I", "P">>
vNONE == <<"N", "O", "N", "E">>
vComma == <<",">>
vPipe == <<"|">>
vNewline == <<"\\", "n">>
vTab == <<"t">>
sSource == <<"s", "o", "u", "r", "c", "e">>
sTarget == <<"t", "a", "r", "g", "e", "t">>
UpperChars == <<"A", "B", "C", "D", "E", "F", "G", "H", "I", "J", "K", "L", "M", "N", "O", "P", "Q", "R", "S", "T", "U", "V", "W", "X", "Y", "Z">>
LowerChars == <<"a", "b", "c", "d", "e", "f", "g", "h", "i", "j", "k", "l", "m", "n", "o", "p", "q", "r", "s", "t", "u", "v", "w", "x", "y", "z">>

\* strings.ToLower
ToLower(s) ==
  [i \in 1..Len(s) |->
     IF \E k \in 1..Len(UpperChars) : UpperChars[k] = s[i]
     THEN LowerChars[CHOOSE k \in 1..Len(UpperChars) : UpperChars[k] = s[i]]
     ELSE s[i]]

\* the remote's upper-casing of the endpoint type it was sent
ToUpper(s) ==
  [i \in 1..Len(s) |->
     IF \E k \in 1..Len(LowerChars) : LowerChars[k] = s[i]
     THEN UpperChars[CHOOSE k \in 1..Len(LowerChars) : LowerChars[k] = s[i]]
     ELSE s[i]]

\* strings.Contains
Contains(s, sub) ==
  \E i \in 0..(Len(s) - Len(sub)) : SubSeq(s, i + 1, i + Len(sub)) = sub

\* strings.Split with a one-character separator: every occurrence splits
RECURSIVE Split(_, _)
Split(s, sep) ==
  IF \A i \in 1..Len(s) : s[i] # sep
  THEN <<s>>
  ELSE LET i == CHOOSE j \in 1..Len(s) :
                   s[j] = sep /\ \A k \in 1..(j - 1) : s[k] # sep
       IN <<SubSeq(s, 1, i - 1)>> \o Split(SubSeq(s, i + 1, Len(s)), sep)

(***************************************************************************)
(* Pointers.                                                               *)
(***************************************************************************)
None == <<>>
Some(v) == <<v>>
\* d.Set with a pointer: nil stores the field's zero value
OrZero(p, zero) == IF p = None THEN zero ELSE p[1]

(***************************************************************************)
(* Declared endpoints: the typed, validated values the configuration       *)
(* source hands to the handlers (Schema, lines 28-131).                    *)
(***************************************************************************)
\* "key=value" pairs joined by ";"
RECURSIVE Render(_)
Render(pl) ==
  IF pl = <<>> THEN <<>>
  ELSE pl[1][1] \o <<"=">> \o pl[1][2] \o
       (IF Len(pl) > 1 THEN <<";">> \o Render(Tail(pl)) ELSE <<>>)

\* well-formed s3 extra attributes: each recognized key at most once
PairLists ==
  { <<>>,
    << <<kCompressionType, vNONE>> >>,
    << <<kCompressionType, vNONE>>, <<kCsvDelimiter, vPipe>> >>,
    << <<kCsvDelimiterAlt, vPipe>>, <<kCompressionTypeAlt, vNONE>> >>,
    << <<kCsvRowDelimiter, vTab>>, <<kCsvDelimiter, vPipe>>, <<kCompressionType, vNONE>> >> }

\* extra attributes with a segment the parser does not bind cleanly
OddExtras ==
  { kCompressionType,
    kBogus \o <<"=">> \o vTab \o <<";">> \o kCsvDelimiter \o <<"=">> \o vPipe,
    kCsvDelimiter \o <<"=", "=">> }

S3Extras == { Render(pl) : pl \in PairLists } \cup OddExtras

ZeroConfig ==
  [ endpoint_id |-> "ep1", endpoint_type |-> sSource, engine_name |-> "mysql",
    service_access_role |-> "", bucket_name |-> "", bucket_folder |-> "",
    extra_connection_attributes |-> <<>>, database_name |-> "",
    password |-> "", port |-> 0, server_name |-> "", username |-> "",
    kms_key_arn |-> "", ssl_mode |-> "", certificate_arn |-> "",
    tags |-> {} ]

RelationalConfigs ==
  { [ZeroConfig EXCEPT !.engine_name = "mysql", !.server_name = "h1",
        !.port = 3306, !.username = "u1", !.password = "p1",
        !.database_name = "db1"],
    [ZeroConfig EXCEPT !.engine_name = "mysql", !.server_name = "h1",
        !.port = 3306, !.username = "u1", !.password = "p2",
        !.database_name = "db1", !.endpoint_type = sTarget],
    [ZeroConfig EXCEPT !.engine_name = "oracle", !.server_name = "h2",
        !.port = 1521, !.username = "u2", !.password = "p1",
        !.extra_connection_attributes = <<"a", "=", "1">>,
        !.ssl_mode = "require", !.certificate_arn = "cert-a",
        !.kms_key_arn = "key-a", !.endpoint_type = sTarget] }

DynamoConfigs ==
  { [ZeroConfig EXCEPT !.engine_name = "dynamodb", !.endpoint_type = sTarget,
        !.service_access_role = r] : r \in {"role-a", "role-b"} }

S3Base ==
  [ZeroConfig EXCEPT !.engine_name = "s3", !.endpoint_type = sTarget,
      !.service_access_role = "role-a", !.bucket_name = "b1",
      !.bucket_folder = "f1"]

S3Configs ==
  { [S3Base EXCEPT !.extra_connection_attributes = x] : x \in S3Extras }
  \cup
  { [S3Base EXCEPT !.bucket_folder = "f2"] }

WithTag(c) == [c EXCEPT !.tags = { <<"env", "dev">> }]

\* declared endpoints that also carry attributes of the other variants
StrayConfigs ==
  { [ZeroConfig EXCEPT !.engine_name = "dynamodb", !.endpoint_type = sTarget,
        !.service_access_role = "role-a", !.server_name = "h1",
        !.port = 3306, !.username = "u1", !.password = "p1",
        !.bucket_name = "b1", !.extra_connection_attributes = <<"a", "=", "1">>],
    [S3Base EXCEPT !.server_name = "h1", !.username = "u1",
        !.password = "p1", !.database_name = "db1", !.ssl_mode = "require"],
    [ZeroConfig EXCEPT !.engine_name = "mysql", !.server_name = "h1",
        !.port = 3306, !.username = "u1", !.password = "p1",
        !.service_access_role = "role-a", !.bucket_name = "b1",
        !.bucket_folder = "f1"] }

DynamoBase == CHOOSE c \in DynamoConfigs : c.service_access_role = "role-b"
RelationalBase == CHOOSE c \in RelationalConfigs : c.password = "p1" /\ c.engine_name = "mysql"

\* the declared endpoints a run draws from: one family of endpoints per run
Families ==
  {"relational", "dynamodb", "s3", "s3odd", "mixed", "stray", "external"}

S3Plain == { c \in S3Configs : c.extra_connection_attributes = <<>> }

ConfigsOf(fam) ==
  CASE fam = "relational" -> RelationalConfigs \cup {WithTag(RelationalBase)}
    [] fam = "dynamodb" -> DynamoConfigs \cup {WithTag(DynamoBase)}
    [] fam = "s3" ->
         { c \in S3Configs : c.extra_connection_attributes \notin OddExtras }
         \cup { WithTag(c) : c \in S3Plain }
    [] fam = "s3odd" ->
         { c \in S3Configs : c.extra_connection_attributes \in OddExtras }
         \cup S3Plain
    [] fam = "mixed" -> {RelationalBase, DynamoBase, S3Base}
    [] fam = "stray" -> StrayConfigs
    [] fam = "external" -> { S3Base, [S3Base EXCEPT !.bucket_folder = "f2"] }

Configs == UNION { ConfigsOf(fam) : fam \in Families }

ConfigFields == DOMAIN ZeroConfig

(***************************************************************************)
(* schema.ResourceData: the local resource data d.                         *)
(***************************************************************************)
\* a new resource: the declared values, no identity, no remote reference
NewData(cfg) ==
  [ f \in ConfigFields \cup {"id", "endpoint_arn"} |->
      IF f \in {"id", "endpoint_arn"} THEN "" ELSE cfg[f] ]

\* fields declared Computed and Optional keep the state's value when the
\* configuration leaves them unset
ComputedOptional ==
  {"certificate_arn", "extra_connection_attributes", "kms_key_arn", "ssl_mode"}

\* the resource data an Update works on: d.Get returns the planned value
PlannedData(cfg, state) ==
  [ f \in DOMAIN state |->
      IF f \in {"id", "endpoint_arn"} THEN state[f]
      ELSE IF f \in ComputedOptional /\ cfg[f] = ZeroConfig[f] THEN state[f]
      ELSE cfg[f] ]

\* d.HasChange
HasChange(old, new, f) == old[f] # new[f]

\* d.GetOk: set and not the zero value
GetOk(data, f) == data[f] # ZeroConfig[f]

(***************************************************************************)
(* The extra-attribute parser of the s3 settings.                          *)
(***************************************************************************)
\* a key match that does not fold the case
matchKey_caseSensitive(key, token) == Contains(key, token)

\* strings.Contains(strings.ToLower(vals[0]), token)
matchKey(key, token) == Contains(ToLower(key), token)

\* one iteration of the loop over elems; vals[0] and vals[1] of the code
\* are vals[1] and vals[2] here.  Reading vals[1] of a one-element slice
\* is an index-out-of-range fault.
parseElem(acc, elem) ==
  LET vals == Split(elem, "=")
  IN IF acc.fault THEN acc
     ELSE IF matchKey(vals[1], tokCompressionType)
       THEN IF Len(vals) < 2 THEN [acc EXCEPT !.fault = TRUE]
            ELSE [acc EXCEPT !.s3.CompressionType = Some(vals[2])]
     ELSE IF matchKey(vals[1], tokCsvDelimiter)
       THEN IF Len(vals) < 2 THEN [acc EXCEPT !.fault = TRUE]
            ELSE [acc EXCEPT !.s3.CsvDelimiter = Some(vals[2])]
     ELSE IF matchKey(vals[1], tokCsvRowDelimiter)
       THEN IF Len(vals) < 2 THEN [acc EXCEPT !.fault = TRUE]
            ELSE [acc EXCEPT !.s3.CsvRowDelimiter = Some(vals[2])]
     ELSE acc

RECURSIVE parseElems(_, _)
parseElems(acc, elems) ==
  IF elems = <<>> THEN acc
  ELSE parseElems(parseElem(acc, Head(elems)), Tail(elems))

\* elems := strings.Split(v, ";") and the loop over it
parseExtraConnectionAttributes(s3, v) ==
  parseElems([s3 |-> s3, fault |-> FALSE], Split(v, ";"))

(***************************************************************************)
(* resourceAwsDmsEndpointCreate: the request it builds.                    *)
(***************************************************************************)
NoRequest == [kind |-> "none"]

\* a request that sends the database name whatever the engine
CreateRequestCommon_withDatabase(data) ==
  [ kind |-> "create",
    EndpointIdentifier |-> data.endpoint_id,
    EndpointType |-> data.endpoint_type,
    EngineName |-> data.engine_name,
    Tags |-> data.tags,
    DynamoDbSettings |-> None, S3Settings |-> None,
    Password |-> None, Port |-> None, ServerName |-> None, Username |-> None,
    DatabaseName |-> IF data.database_name # "" THEN Some(data.database_name)
                     ELSE None,
    ExtraConnectionAttributes |-> None,
    KmsKeyId |-> None, SslMode |-> None, CertificateArn |-> None ]

CreateRequestCommon(data) ==
  [ kind |-> "create",
    EndpointIdentifier |-> data.endpoint_id,
    EndpointType |-> data.endpoint_type,
    EngineName |-> data.engine_name,
    Tags |-> data.tags,
    DynamoDbSettings |-> None, S3Settings |-> None,
    Password |-> None, Port |-> None, ServerName |-> None, Username |-> None,
    DatabaseName |-> None, ExtraConnectionAttributes |-> None,
    KmsKeyId |-> None, SslMode |-> None, CertificateArn |-> None ]

\* the S3Settings literal of Create, with the three defaults
CreateS3Defaults(data) ==
  [ BucketName |-> Some(data.bucket_name),
    BucketFolder |-> Some(data.bucket_folder),
    ServiceAccessRoleArn |-> Some(data.service_access_role),
    CompressionType |-> Some(vGZIP),
    CsvDelimiter |-> Some(vComma),
    CsvRowDelimiter |-> Some(vNewline) ]

\* optional fields that are never sent
OptField_never(data, f) == None

OptField(data, f) == IF GetOk(data, f) THEN Some(data[f]) ELSE None

\* the switch on engine_name; result: the request, and whether building it
\* faulted
CreateRequestSettings(data) ==
  LET r == CreateRequestCommon(data)
  IN CASE data.engine_name = "dynamodb" ->
            [ request |-> [r EXCEPT !.DynamoDbSettings =
                  Some([ServiceAccessRoleArn |-> Some(data.service_access_role)])],
              fault |-> FALSE ]
       [] data.engine_name = "s3" ->
            LET p == IF GetOk(data, "extra_connection_attributes")
                     THEN parseExtraConnectionAttributes(CreateS3Defaults(data),
                              data.extra_connection_attributes)
                     ELSE [s3 |-> CreateS3Defaults(data), fault |-> FALSE]
            IN [ request |-> [r EXCEPT !.S3Settings = Some(p.s3)],
                 fault |-> p.fault ]
       [] OTHER ->
            [ request |-> [r EXCEPT
                  !.Password = Some(data.password),
                  !.Port = Some(data.port),
                  !.ServerName = Some(data.server_name),
                  !.Username = Some(data.username),
                  !.DatabaseName = OptField(data, "database_name"),
                  !.ExtraConnectionAttributes =
                      OptField(data, "extra_connection_attributes"),
                  !.KmsKeyId = OptField(data, "kms_key_arn"),
                  !.SslMode = OptField(data, "ssl_mode")],
              fault |-> FALSE ]

CreateRequest(data) ==
  LET b == CreateRequestSettings(data)
  IN [ b EXCEPT !.request.CertificateArn = OptField(data, "certificate_arn") ]

(***************************************************************************)
(* The remote control plane.                                               *)
(***************************************************************************)
ArnNames == <<"arn:1", "arn:2", "arn:3", "arn:4">>

\* CreateEndpoint stores what it is sent; the endpoint type comes back in
\* upper case (comment at line 403)
EndpointCreated(req, arn) ==
  [ EndpointIdentifier |-> req.EndpointIdentifier,
    EndpointArn |-> arn,
    EndpointType |-> ToUpper(req.EndpointType),
    EngineName |-> req.EngineName,
    CertificateArn |-> req.CertificateArn,
    DatabaseName |-> req.DatabaseName,
    ExtraConnectionAttributes |-> req.ExtraConnectionAttributes,
    Port |-> req.Port, ServerName |-> req.ServerName,
    Username |-> req.Username, KmsKeyId |-> req.KmsKeyId,
    SslMode |-> req.SslMode,
    DynamoDbSettings |-> req.DynamoDbSettings,
    S3Settings |-> req.S3Settings,
    Tags |-> req.Tags ]

\* s3 endpoints made outside this program, which Import adopts; their
\* delimiter is any text the remote accepts
vSemicolon == <<";">>

ExternalEndpoints ==
  { [ EndpointIdentifier |-> "ep1",
      EndpointArn |-> "arn:ext",
      EndpointType |-> ToUpper(sTarget),
      EngineName |-> "s3",
      CertificateArn |-> None, DatabaseName |-> None,
      ExtraConnectionAttributes |-> None,
      Port |-> None, ServerName |-> None, Username |-> None,
      KmsKeyId |-> None, SslMode |-> None,
      DynamoDbSettings |-> None,
      S3Settings |-> Some([ BucketName |-> Some("b1"),
                            BucketFolder |-> Some("f1"),
                            ServiceAccessRoleArn |-> Some("role-a"),
                            CompressionType |-> Some(vGZIP),
                            CsvDelimiter |-> Some(v),
                            CsvRowDelimiter |-> Some(vNewline) ]),
      Tags |-> {} ] : v \in {vSemicolon, vPipe} }

Over(new, old) == IF new = None THEN old ELSE new

\* ModifyEndpoint: the fields sent replace the fields held; a settings
\* sub-object is taken whole, never as a patch within it
EndpointModified(ep, req) ==
  [ ep EXCEPT
      !.EndpointType = IF req.EndpointType = None THEN @
                       ELSE ToUpper(req.EndpointType[1]),
      !.EngineName = IF req.EngineName = None THEN @ ELSE req.EngineName[1],
      !.CertificateArn = Over(req.CertificateArn, @),
      !.DatabaseName = Over(req.DatabaseName, @),
      !.ExtraConnectionAttributes = Over(req.ExtraConnectionAttributes, @),
      !.Port = Over(req.Port, @),
      !.ServerName = Over(req.ServerName, @),
      !.Username = Over(req.Username, @),
      !.SslMode = Over(req.SslMode, @),
      !.DynamoDbSettings = Over(req.DynamoDbSettings, @),
      !.S3Settings = Over(req.S3Settings, @) ]

\* the remote resolves the reference first: a call that names no existing
\* endpoint is answered with the not-found fault; a call that names one
\* succeeds or fails with the fault injected for it
RemoteAnswer(exists, call, fail) ==
  IF ~exists THEN "ResourceNotFoundFault"
  ELSE IF fail = call THEN "InternalFailure"
  ELSE "ok"

HoldsArn(rem, arn) == rem # None /\ rem[1].EndpointArn = arn
HoldsId(rem, id) == rem # None /\ rem[1].EndpointIdentifier = id

Call(name, out) == [op |-> name, out |-> out]

(***************************************************************************)
(* resourceAwsDmsEndpointSetState                                          *)
(***************************************************************************)
\* fmt.Sprintf("compressionType=%s;csvDelimiter=%s;csvRowDelimiter=%s", ...)
SprintfExtra(c, dl, r) ==
  kCompressionType \o <<"=">> \o c \o <<";">> \o
  kCsvDelimiter \o <<"=">> \o dl \o <<";">> \o
  kCsvRowDelimiter \o <<"=">> \o r

\* the common fields with the endpoint type stored as the remote returned it
SetStateCommon_noLower(data, endpoint) ==
  [ data EXCEPT
      !.id = endpoint.EndpointIdentifier,
      !.certificate_arn = OrZero(endpoint.CertificateArn, ""),
      !.endpoint_arn = endpoint.EndpointArn,
      !.endpoint_id = endpoint.EndpointIdentifier,
      !.endpoint_type = endpoint.EndpointType,
      !.engine_name = endpoint.EngineName ]

\* the fields every engine kind sets (lines 398-405)
SetStateCommon(data, endpoint) ==
  [ data EXCEPT
      !.id = endpoint.EndpointIdentifier,
      !.certificate_arn = OrZero(endpoint.CertificateArn, ""),
      !.endpoint_arn = endpoint.EndpointArn,
      !.endpoint_id = endpoint.EndpointIdentifier,
      !.endpoint_type = ToLower(endpoint.EndpointType),
      !.engine_name = endpoint.EngineName ]

\* a SetState that also writes the password, which the remote never returns
resourceAwsDmsEndpointSetState_setsPassword(data, endpoint) ==
  [ d |-> [SetStateCommon(data, endpoint) EXCEPT !.password = ""],
    fault |-> FALSE ]

\* result: the data, and whether a nil pointer was dereferenced
resourceAwsDmsEndpointSetState(data, endpoint) ==
  LET c == SetStateCommon(data, endpoint)
  IN CASE endpoint.EngineName = "dynamodb" ->
            [ d |-> [c EXCEPT !.service_access_role =
                        IF endpoint.DynamoDbSettings # None
                        THEN OrZero(endpoint.DynamoDbSettings[1].ServiceAccessRoleArn, "")
                        ELSE ""],
              fault |-> FALSE ]
       [] endpoint.EngineName = "s3" ->
            IF endpoint.S3Settings # None
            THEN LET s3 == endpoint.S3Settings[1]
                     c1 == [c EXCEPT
                              !.service_access_role = OrZero(s3.ServiceAccessRoleArn, ""),
                              !.bucket_folder = OrZero(s3.BucketFolder, ""),
                              !.bucket_name = OrZero(s3.BucketName, "")]
                 IN IF s3.CompressionType = None \/ s3.CsvDelimiter = None
                       \/ s3.CsvRowDelimiter = None
                    THEN [ d |-> c1, fault |-> TRUE ]
                    ELSE [ d |-> [c1 EXCEPT !.extra_connection_attributes =
                                    SprintfExtra(s3.CompressionType[1],
                                                 s3.CsvDelimiter[1],
                                                 s3.CsvRowDelimiter[1])],
                           fault |-> FALSE ]
            ELSE [ d |-> [c EXCEPT !.service_access_role = "",
                                   !.bucket_folder = "", !.bucket_name = "",
                                   !.extra_connection_attributes = <<>>],
                   fault |-> FALSE ]
       [] OTHER ->
            [ d |-> [c EXCEPT
                  !.database_name = OrZero(endpoint.DatabaseName, ""),
                  !.extra_connection_attributes =
                      OrZero(endpoint.ExtraConnectionAttributes, <<>>),
                  !.port = OrZero(endpoint.Port, 0),
                  !.server_name = OrZero(endpoint.ServerName, ""),
                  !.username = OrZero(endpoint.Username, ""),
                  !.kms_key_arn = OrZero(endpoint.KmsKeyId, ""),
                  !.ssl_mode = OrZero(endpoint.SslMode, "")],
              fault |-> FALSE ]

(***************************************************************************)
(* resourceAwsDmsEndpointRead                                              *)
(*   fail: the remote call that fails with an internal fault, if any       *)
(*   absence: how DescribeEndpoints reports zero matches, as the not-found *)
(*   fault ("fault") or as a response with no endpoints ("empty")          *)
(***************************************************************************)
\* a tag fetch whose failure is dropped
ReadTags_bestEffort(data, rem, log, fail) ==
  LET out == RemoteAnswer(HoldsArn(rem, data.endpoint_arn),
                          "ListTagsForResource", fail)
      log1 == Append(log, Call("ListTagsForResource", out))
  IN IF out # "ok"
     THEN [ d |-> data, calls |-> log1, result |-> "ok" ]
     ELSE [ d |-> [data EXCEPT !.tags = rem[1].Tags], calls |-> log1,
            result |-> "ok" ]

\* the tag fetch and what follows it (lines 253-261)
ReadTags(data, rem, log, fail) ==
  LET out == RemoteAnswer(HoldsArn(rem, data.endpoint_arn),
                          "ListTagsForResource", fail)
      log1 == Append(log, Call("ListTagsForResource", out))
  IN IF out # "ok"
     THEN [ d |-> data, calls |-> log1, result |-> out ]
     ELSE [ d |-> [data EXCEPT !.tags = rem[1].Tags], calls |-> log1,
            result |-> "ok" ]

resourceAwsDmsEndpointRead(data, rem, log, fail, absence) ==
  LET found == HoldsId(rem, data.id)
      out == IF ~found /\ absence = "empty" THEN "empty"
             ELSE RemoteAnswer(found, "DescribeEndpoints", fail)
      log1 == Append(log, Call("DescribeEndpoints", out))
  IN IF out = "ResourceNotFoundFault"
       THEN [ d |-> [data EXCEPT !.id = ""], calls |-> log1, result |-> "ok" ]
     ELSE IF out = "empty"
       \* response.Endpoints[0] of an empty slice
       THEN [ d |-> data, calls |-> log1, result |-> "panic" ]
     ELSE IF out # "ok"
       THEN [ d |-> data, calls |-> log1, result |-> out ]
     ELSE LET s == resourceAwsDmsEndpointSetState(data, rem[1])
          IN IF s.fault
             THEN [ d |-> s.d, calls |-> log1, result |-> "panic" ]
             ELSE ReadTags(s.d, rem, log1, fail)

(***************************************************************************)
(* dmsSetTags: makes the remote tags of the reference equal the desired    *)
(* tags, in one synchronization call.                                      *)
(***************************************************************************)
dmsSetTags(arn, data, rem, log, fail) ==
  LET out == RemoteAnswer(HoldsArn(rem, arn), "TagSync", fail)
  IN [ remote |-> IF out = "ok" THEN Some([rem[1] EXCEPT !.Tags = data.tags])
                  ELSE rem,
       calls |-> Append(log, Call("TagSync", out)),
       result |-> out ]

(***************************************************************************)
(* resourceAwsDmsEndpointUpdate                                            *)
(***************************************************************************)
ModifyRequestEmpty(data) ==
  [ kind |-> "modify", EndpointArn |-> data.endpoint_arn,
    EndpointType |-> None, CertificateArn |-> None, DatabaseName |-> None,
    EngineName |-> None, DynamoDbSettings |-> None, S3Settings |-> None,
    ExtraConnectionAttributes |-> None, Password |-> None, Port |-> None,
    ServerName |-> None, SslMode |-> None, Username |-> None ]

\* if d.HasChange(f) { request.F = d.Get(f); hasChanges = true }
SetIfChanged(acc, old, data, f, F) ==
  IF HasChange(old, data, f)
  THEN [ acc EXCEPT !.request[F] = Some(data[f]), !.hasChanges = TRUE ]
  ELSE acc

\* lines 267-290
UpdateCommon(old, data) ==
  LET a0 == [ request |-> ModifyRequestEmpty(data), hasChanges |-> FALSE,
              done |-> FALSE, fault |-> FALSE ]
      a1 == SetIfChanged(a0, old, data, "endpoint_type", "EndpointType")
      a2 == SetIfChanged(a1, old, data, "certificate_arn", "CertificateArn")
      a3 == SetIfChanged(a2, old, data, "database_name", "DatabaseName")
  IN SetIfChanged(a3, old, data, "engine_name", "EngineName")

S3SettingsChanged(old, data) ==
  \/ HasChange(old, data, "service_access_role")
  \/ HasChange(old, data, "bucket_name")
  \/ HasChange(old, data, "bucket_folder")
  \/ HasChange(old, data, "extra_connection_attributes")

\* the S3Settings literal of Update: the three extra fields start out nil
UpdateS3Settings(data) ==
  [ ServiceAccessRoleArn |-> Some(data.service_access_role),
    BucketFolder |-> Some(data.bucket_folder),
    BucketName |-> Some(data.bucket_name),
    CompressionType |-> None, CsvDelimiter |-> None, CsvRowDelimiter |-> None ]

\* the switch on engine_name (lines 292-331); done: the goto DONE was taken
UpdateSettings(acc, old, data) ==
  CASE data.engine_name = "dynamodb" ->
         IF HasChange(old, data, "service_access_role")
         THEN [ acc EXCEPT
                  !.request.DynamoDbSettings =
                     Some([ServiceAccessRoleArn |-> Some(data.service_access_role)]),
                  !.hasChanges = TRUE ]
         ELSE acc
    [] data.engine_name = "s3" ->
         IF S3SettingsChanged(old, data)
         THEN LET p == parseExtraConnectionAttributes(UpdateS3Settings(data),
                           data.extra_connection_attributes)
              IN [ acc EXCEPT !.request.S3Settings = Some(p.s3),
                              !.hasChanges = TRUE, !.done = TRUE,
                              !.fault = p.fault ]
         ELSE acc
    [] OTHER ->
         SetIfChanged(acc, old, data, "extra_connection_attributes",
                      "ExtraConnectionAttributes")

\* lines 333-356
UpdateRelational(acc, old, data) ==
  LET a1 == SetIfChanged(acc, old, data, "password", "Password")
      a2 == SetIfChanged(a1, old, data, "port", "Port")
      a3 == SetIfChanged(a2, old, data, "server_name", "ServerName")
      a4 == SetIfChanged(a3, old, data, "ssl_mode", "SslMode")
  IN SetIfChanged(a4, old, data, "username", "Username")

\* the request as it stands at the label DONE, or where the jump left it
UpdateRequest(old, data) ==
  LET a == UpdateSettings(UpdateCommon(old, data), old, data)
  IN IF a.done THEN a ELSE UpdateRelational(a, old, data)

\* whether the tag synchronization is reached (line 358)
UpdateSyncsTags(acc, old, data) == ~acc.done /\ HasChange(old, data, "tags")

\* an apply step that ignores hasChanges
NeedsModify_always(acc) == TRUE

\* if hasChanges (line 366)
NeedsModify(acc) == acc.hasChanges

\* DONE: (lines 365-377)
UpdateApply(acc, data, rem, log, fail, absence) ==
  IF ~NeedsModify(acc)
  THEN [ d |-> data, remote |-> rem, calls |-> log, result |-> "ok" ]
  ELSE LET out == RemoteAnswer(HoldsArn(rem, acc.request.EndpointArn),
                               "ModifyEndpoint", fail)
           log1 == Append(log, Call("ModifyEndpoint", out))
       IN IF out # "ok"
          THEN [ d |-> data, remote |-> rem, calls |-> log1, result |-> out ]
          ELSE LET rem1 == Some(EndpointModified(rem[1], acc.request))
                   r == resourceAwsDmsEndpointRead(data, rem1, log1, fail, absence)
               IN [ d |-> r.d, remote |-> rem1, calls |-> r.calls,
                    result |-> r.result ]

resourceAwsDmsEndpointUpdate(old, data, rem, fail, absence) ==
  LET acc == UpdateRequest(old, data)
  IN IF acc.fault
     THEN [ d |-> data, remote |-> rem, calls |-> <<>>, result |-> "panic",
            request |-> acc.request ]
     ELSE IF UpdateSyncsTags(acc, old, data)
     THEN LET t == dmsSetTags(data.endpoint_arn, data, rem, <<>>, fail)
          IN IF t.result # "ok"
             THEN [ d |-> data, remote |-> rem, calls |-> t.calls,
                    result |-> t.result, request |-> acc.request ]
             ELSE [ request |-> acc.request ] @@
                  UpdateApply(acc, data, t.remote, t.calls, fail, absence)
     ELSE [ request |-> acc.request ] @@
          UpdateApply(acc, data, rem, <<>>, fail, absence)

(***************************************************************************)
(* resourceAwsDmsEndpointDelete                                            *)
(***************************************************************************)
\* a Delete that treats an endpoint already gone as deleted
DeleteResult_swallowNotFound(out) ==
  IF out = "ResourceNotFoundFault" THEN "ok" ELSE out

\* if err != nil { return err }; return nil (lines 390-394)
DeleteResult(out) == out

resourceAwsDmsEndpointDelete(data, rem, fail) ==
  LET out == RemoteAnswer(HoldsArn(rem, data.endpoint_arn), "DeleteEndpoint", fail)
  IN [ remote |-> IF out = "ok" THEN None ELSE rem,
       calls |-> <<Call("DeleteEndpoint", out)>>,
       result |-> DeleteResult(out) ]

(***************************************************************************)
(* The state machine.                                                      *)
(***************************************************************************)
NoData ==
  [ NewData(ZeroConfig) EXCEPT !.endpoint_id = "", !.endpoint_type = <<>>,
                               !.engine_name = "" ]

Absences == {"fault", "empty"}

Init ==
  /\ family \in Families
  /\ d = NoData
  /\ remote \in IF family = "external"
                THEN { Some(e) : e \in ExternalEndpoints }
                ELSE { None }
  /\ request = NoRequest
  /\ calls = <<>>
  /\ result = "none"
  /\ op = "none"
  /\ pc = "idle"
  /\ attempts = 0
  /\ before = NoData
  /\ changed = {}
  /\ nextArn = 1
  /\ deletedArns = {}
  /\ afterDelete = FALSE

\* Create up to the retry loop: the request is built from the declared
\* endpoint (lines 135-204)
CreateStart(cfg) ==
  /\ pc = "idle"
  /\ nextArn <= MaxArns
  /\ LET data == NewData(cfg)
         b == CreateRequest(data)
     IN /\ d' = data
        /\ before' = data
        /\ request' = b.request
        /\ pc' = IF b.fault THEN "idle" ELSE "retry"
        /\ result' = IF b.fault THEN "panic" ELSE "running"
  /\ op' = "Create"
  /\ calls' = <<>>
  /\ attempts' = 0
  /\ changed' = {}
  /\ afterDelete' = FALSE
  /\ UNCHANGED <<family, remote, nextArn, deletedArns>>

\* a classification that retries after every fault
Retryable_everyFault(code) == TRUE

\* the error classification inside the retried function (lines 207-216)
Retryable(code) == code = "AccessDeniedFault"

\* a retry loop without a ceiling
RetryExpired_never(n) == FALSE

\* resource.Retry(5*time.Minute, ...): the ceiling is reached after
\* MaxAttempts passes (line 206)
RetryExpired(n) == n >= MaxAttempts

\* what the remote answers to CreateEndpoint
CreateAnswer(rem, out) ==
  IF out = "ok" /\ rem # None THEN "ResourceAlreadyExistsFault" ELSE out

\* one pass of the function given to resource.Retry, and, when the loop
\* ends, the rest of Create (lines 206-225).  The Read that follows finds
\* the endpoint just created, so the form of an absence answer plays no part.
CreateAttempt(out, fail) ==
  /\ pc = "retry"
  /\ attempts <= MaxAttempts
  /\ LET o == CreateAnswer(remote, out)
         log1 == Append(calls, Call("CreateEndpoint", o))
     IN CASE o # "ok" /\ Retryable(o) ->
               /\ attempts' = attempts + 1
               /\ pc' = IF RetryExpired(attempts + 1) THEN "idle" ELSE "retry"
               /\ result' = IF RetryExpired(attempts + 1) THEN o ELSE "running"
               /\ calls' = log1
               /\ UNCHANGED <<d, remote, nextArn>>
          [] o = "ok" ->
               \E rem1 \in { Some(EndpointCreated(request, ArnNames[nextArn])) } :
               \E r \in { resourceAwsDmsEndpointRead(
                            [d EXCEPT !.id = d.endpoint_id], rem1, log1, fail,
                            "fault") } :
                  /\ remote' = rem1
                  /\ nextArn' = nextArn + 1
                  /\ d' = r.d
                  /\ calls' = r.calls
                  /\ result' = r.result
                  /\ pc' = "idle"
                  /\ UNCHANGED attempts
          [] OTHER ->
               /\ result' = o
               /\ pc' = "idle"
               /\ calls' = log1
               /\ UNCHANGED <<d, remote, nextArn, attempts>>
  /\ UNCHANGED <<family, request, op, before, changed, deletedArns, afterDelete>>

Read(fail, absence) ==
  /\ pc = "idle"
  /\ d.id # ""
  /\ \E r \in { resourceAwsDmsEndpointRead(d, remote, <<>>, fail, absence) } :
        /\ d' = r.d
        /\ calls' = r.calls
        /\ result' = r.result
  /\ op' = "Read"
  /\ before' = d
  /\ afterDelete' = (d.endpoint_arn \in deletedArns)
  /\ request' = NoRequest
  /\ changed' = {}
  /\ UNCHANGED <<family, remote, pc, attempts, nextArn, deletedArns>>

\* schema.ImportStatePassthrough, then Read: only the identity is known
Import(fail, absence) ==
  /\ pc = "idle"
  /\ \E data \in { [NoData EXCEPT !.id = "ep1"] } :
     \E r \in { resourceAwsDmsEndpointRead(data, remote, <<>>, fail, absence) } :
        /\ d' = r.d
        /\ calls' = r.calls
        /\ result' = r.result
        /\ before' = data
  /\ op' = "Import"
  /\ afterDelete' = FALSE
  /\ request' = NoRequest
  /\ changed' = {}
  /\ UNCHANGED <<family, remote, pc, attempts, nextArn, deletedArns>>

\* endpoint_id and kms_key_arn are ForceNew: a change of either is not an
\* Update.  The caller plans an Update from the state a successful operation
\* left; after a failed one it refreshes with Read first.  The Read that ends
\* an Update follows a ModifyEndpoint that found the endpoint.
Update(cfg, fail) ==
  /\ pc = "idle"
  /\ d.id # ""
  /\ result = "ok"
  /\ cfg.endpoint_id = d.endpoint_id
  /\ cfg.kms_key_arn \in {"", d.kms_key_arn}
  /\ \E data \in { PlannedData(cfg, d) } :
     \E r \in { resourceAwsDmsEndpointUpdate(d, data, remote, fail, "fault") } :
        /\ d' = r.d
        /\ remote' = r.remote
        /\ calls' = r.calls
        /\ result' = r.result
        /\ request' = r.request
        /\ changed' = { f \in ConfigFields : HasChange(d, data, f) }
  /\ op' = "Update"
  /\ before' = d
  /\ afterDelete' = (d.endpoint_arn \in deletedArns)
  /\ UNCHANGED <<family, pc, attempts, nextArn, deletedArns>>

Delete(fail) ==
  /\ pc = "idle"
  /\ d.id # ""
  /\ \E r \in { resourceAwsDmsEndpointDelete(d, remote, fail) } :
        /\ remote' = r.remote
        /\ calls' = r.calls
        /\ result' = r.result
        /\ deletedArns' = IF r.calls[1].out = "ok"
                          THEN deletedArns \cup {d.endpoint_arn}
                          ELSE deletedArns
  /\ op' = "Delete"
  /\ before' = d
  /\ afterDelete' = (d.endpoint_arn \in deletedArns)
  /\ request' = NoRequest
  /\ changed' = {}
  /\ UNCHANGED <<family, d, pc, attempts, nextArn>>

CreateOutcomes == {"ok", "AccessDeniedFault", "InvalidParameterValueException"}
ReadFails == {"none", "DescribeEndpoints", "ListTagsForResource"}
UpdateFails == ReadFails \cup {"ModifyEndpoint", "TagSync"}
DeleteFails == {"none", "DeleteEndpoint"}

Next ==
  \/ \E cfg \in ConfigsOf(family) : CreateStart(cfg)
  \/ \E out \in CreateOutcomes, fail \in ReadFails : CreateAttempt(out, fail)
  \/ \E fail \in ReadFails, absence \in Absences : Read(fail, absence)
  \/ \E fail \in ReadFails, absence \in Absences : Import(fail, absence)
  \/ \E cfg \in ConfigsOf(family), fail \in UpdateFails : Update(cfg, fail)
  \/ \E fail \in DeleteFails : Delete(fail)

Spec == Init /\ [][Next]_vars

\* resource.Retry keeps calling the function until it ends the loop, and
\* every remote call returns
SpecFair ==
  Spec /\ WF_vars(\E out \in CreateOutcomes, fail \in ReadFails :
                    CreateAttempt(out, fail))

(***************************************************************************)
(* Properties.                                                             *)
(***************************************************************************)
Called(name) == \E i \in 1..Len(calls) : calls[i].op = name
Finished(o) == op = o /\ pc = "idle"

\* C1: in every Update in which the tags differ between the previous and the
\* desired endpoint, the tag synchronization is called, whatever else changed
C1_TagChangeAlwaysSynchronized ==
  (Finished("Update") /\ "tags" \in changed) => Called("TagSync")

\* C2: a Read for an identifier with zero remote matches ends in success with
\* the identity cleared, however the remote reports the absence
C2_AbsenceIsSuccess ==
  ( /\ op \in {"Read", "Import"}
    /\ Len(calls) >= 1
    /\ calls[1].op = "DescribeEndpoints"
    /\ calls[1].out \in {"ResourceNotFoundFault", "empty"} )
  => (result = "ok" /\ d.id = "")

\* C3: Create ends either in success with identity and remote reference set
\* and its Read succeeded, or in failure with neither of them set
C3_CreateAllOrNothing ==
  (Finished("Create") /\ result # "running") =>
    \/ /\ result = "ok"
       /\ d.id # "" /\ d.endpoint_arn # ""
       /\ Called("DescribeEndpoints") /\ Called("ListTagsForResource")
    \/ /\ result # "ok"
       /\ d.id = "" /\ d.endpoint_arn = ""

\* C4: during Create, CreateEndpoint is called again only after an attempt
\* that failed with AccessDeniedFault; any other fault ends Create with that
\* fault, with no identity set and without a Read
C4_RetryOnlyAfterAccessDenied ==
  op = "Create" =>
    /\ \A i \in 2..Len(calls) :
         calls[i].op = "CreateEndpoint" =>
           calls[i - 1] = Call("CreateEndpoint", "AccessDeniedFault")
    /\ \A i \in 1..Len(calls) :
         ( calls[i].op = "CreateEndpoint"
           /\ calls[i].out \notin {"ok", "AccessDeniedFault"} ) =>
             /\ i = Len(calls)
             /\ pc = "idle"
             /\ result = calls[i].out
             /\ d.id = ""
             /\ ~Called("DescribeEndpoints")

C4_Witness ==
  /\ Finished("Create")
  /\ Len(calls) = 2
  /\ calls[1] = Call("CreateEndpoint", "AccessDeniedFault")
  /\ calls[2] = Call("CreateEndpoint", "InvalidParameterValueException")
  /\ result = "InvalidParameterValueException"

\* C5: an Update in which no field differs issues no remote call and succeeds
C5_NoChangeNoCalls ==
  (Finished("Update") /\ changed = {}) => (calls = <<>> /\ result = "ok")

C5_Witness ==
  /\ Finished("Update") /\ changed = {}
  /\ remote # None /\ d.endpoint_arn = remote[1].EndpointArn
S3Fields ==
  {"service_access_role", "bucket_name", "bucket_folder",
   "extra_connection_attributes"}

\* the engine kind the finished Update planned
PlannedEngine ==
  IF "engine_name" \in changed THEN request.EngineName[1] ELSE before.engine_name

\* C6: for an s3 endpoint, an Update that changes one of the four s3 fields
\* sends a ModifyEndpoint request whose S3 settings have all six fields set
C6_S3UpdateSendsAllSix ==
  ( /\ Finished("Update")
    /\ Called("ModifyEndpoint")
    /\ PlannedEngine = "s3"
    /\ changed \cap S3Fields # {} )
  => /\ request.S3Settings # None
     /\ \A f \in DOMAIN request.S3Settings[1] : request.S3Settings[1][f] # None

\* C7 as stated: after a successful Delete, every later Read, Update or
\* Delete against the same remote reference fails with the not-found fault
C7_AfterDeleteEverythingFails ==
  (afterDelete /\ op \in {"Read", "Update", "Delete"})
  => result = "ResourceNotFoundFault"

\* C7, amended: after a successful Delete, every later Delete, and every
\* later Update that issues a remote call, against the same remote reference
\* fails with the not-found fault the remote raised for its first call; a
\* later Read never returns that fault: answered with it, Read clears the
\* identity and succeeds; an Update that issues no remote call does not
\* return that fault either
C7_AfterDeleteNotFound ==
  afterDelete =>
    /\ op = "Delete" =>
         (result = "ResourceNotFoundFault"
          /\ calls = <<Call("DeleteEndpoint", "ResourceNotFoundFault")>>)
    /\ (op = "Update" /\ calls # <<>>) =>
         (result = "ResourceNotFoundFault" /\ Len(calls) = 1
          /\ calls[1].out = "ResourceNotFoundFault")
    /\ (op = "Update" /\ calls = <<>>) => result \in {"ok", "panic"}
    /\ op = "Read" =>
         /\ result # "ResourceNotFoundFault"
         /\ calls[1].out = "ResourceNotFoundFault" => (result = "ok" /\ d.id = "")

C7_Witness ==
  /\ afterDelete
  /\ op = "Delete"
  /\ result = "ResourceNotFoundFault"
  /\ before.endpoint_arn \in deletedArns

\* the value a well-formed pair list supplies for a key, or the default
ValueFor(pl, key, default) ==
  IF \E i \in 1..Len(pl) : ToLower(pl[i][1]) = ToLower(key)
  THEN pl[CHOOSE i \in 1..Len(pl) : ToLower(pl[i][1]) = ToLower(key)][2]
  ELSE default

CanonicalFor(pl) ==
  Render(<< <<kCompressionType, ValueFor(pl, kCompressionType, vGZIP)>>,
            <<kCsvDelimiter, ValueFor(pl, kCsvDelimiter, vComma)>>,
            <<kCsvRowDelimiter, ValueFor(pl, kCsvRowDelimiter, vNewline)>> >>)

\* C8: for s3, Create and its Read yield the canonical string of the three
\* pairs in fixed order, each value the one supplied for the key or its
\* default, whatever the order of the pairs and the case of the keys
C8_S3CanonicalExtra ==
  (Finished("Create") /\ result = "ok" /\ before.engine_name = "s3") =>
    \A pl \in PairLists :
      before.extra_connection_attributes = Render(pl) =>
        d.extra_connection_attributes = CanonicalFor(pl)

C8_Witness ==
  /\ Finished("Create") /\ result = "ok"
  /\ before.extra_connection_attributes =
       Render(<< <<kCsvDelimiterAlt, vPipe>>, <<kCompressionTypeAlt, vNONE>> >>)
  /\ d.extra_connection_attributes =
       Render(<< <<kCompressionType, vNONE>>, <<kCsvDelimiter, vPipe>>,
                 <<kCsvRowDelimiter, vNewline>> >>)

sSOURCE == <<"S", "O", "U", "R", "C", "E">>
sTARGET == <<"T", "A", "R", "G", "E", "T">>

ReadFound == pc = "idle" /\ Called("DescribeEndpoints") /\
             \E i \in 1..Len(calls) : calls[i] = Call("DescribeEndpoints", "ok")

\* C9: after every Read that finds the endpoint the local role is the lower
\* case form of the remote's role, and the local role is never upper case
C9_RoleLowercase ==
  /\ d.endpoint_type \in {<<>>, sSource, sTarget}
  /\ ReadFound =>
       /\ remote # None
       /\ remote[1].EndpointType = sSOURCE => d.endpoint_type = sSource
       /\ remote[1].EndpointType = sTARGET => d.endpoint_type = sTarget
       /\ remote[1].EndpointType \in {sSOURCE, sTARGET}

C9_Witness ==
  /\ op = "Read" /\ result = "ok" /\ ReadFound
  /\ remote[1].EndpointType = sSOURCE
  /\ d.endpoint_type = sSource

\* C10: when Read finds the endpoint and the tag fetch fails, the operation
\* returns that failure; a Read that succeeds holds the remote's tags
C10_TagFetchFailurePropagates ==
  /\ \A i \in 1..Len(calls) :
       (calls[i].op = "ListTagsForResource" /\ calls[i].out # "ok") =>
          (i = Len(calls) /\ result = calls[i].out)
  /\ (op \in {"Read", "Import"} /\ result = "ok" /\ d.id # "") =>
       (remote # None /\ d.tags = remote[1].Tags)

C10_Witness ==
  /\ op = "Read"
  /\ calls = << Call("DescribeEndpoints", "ok"),
                Call("ListTagsForResource", "InternalFailure") >>
  /\ result = "InternalFailure"

RelationalFields ==
  {"server_name", "port", "username", "database_name",
   "extra_connection_attributes", "kms_key_arn", "ssl_mode"}

\* C11: for every relational engine kind, Create and its Read against a
\* remote that stores what it is sent leave the relational fields other than
\* the password equal to the declared values
C11_RelationalRoundTrip ==
  ( /\ Finished("Create") /\ result = "ok"
    /\ before.engine_name \notin {"dynamodb", "s3"} )
  => \A f \in RelationalFields : d[f] = before[f]

C11_Witness ==
  /\ Finished("Create") /\ result = "ok"
  /\ before.engine_name = "oracle"
  /\ d.server_name = "h2" /\ d.port = 1521 /\ d.username = "u2"
  /\ d.extra_connection_attributes = <<"a", "=", "1">>
  /\ d.kms_key_arn = "key-a" /\ d.ssl_mode = "require"

\* C12: Create always terminates: a Create in its retry loop ends, and when
\* every attempt is answered with AccessDeniedFault it ends at the ceiling
\* with that fault as a terminal failure
C12_CreateTerminates ==
  /\ (pc = "retry") ~> (pc = "idle")
  /\ [](op = "Create" /\ attempts >= MaxAttempts
          => pc = "idle" /\ result = "AccessDeniedFault")

C12_Witness ==
  /\ Finished("Create")
  /\ attempts = MaxAttempts
  /\ Len(calls) = MaxAttempts
  /\ \A i \in 1..Len(calls) : calls[i] = Call("CreateEndpoint", "AccessDeniedFault")
  /\ result = "AccessDeniedFault"
  /\ d.id = ""

RequestRelational ==
  {"Password", "Port", "ServerName", "Username", "DatabaseName",
   "ExtraConnectionAttributes", "KmsKeyId", "SslMode"}

RequestRequired == {"Password", "Port", "ServerName", "Username"}

\* C13: every CreateEndpoint request populates exactly the variant its
\* engine name selects: the Dynamo settings for dynamodb, the S3 settings for
\* s3, the relational fields otherwise, and no field of another variant
C13_CreateRequestOneVariant ==
  request.kind = "create" =>
    CASE request.EngineName = "dynamodb" ->
           /\ request.DynamoDbSettings # None
           /\ request.S3Settings = None
           /\ \A f \in RequestRelational : request[f] = None
      [] request.EngineName = "s3" ->
           /\ request.S3Settings # None
           /\ request.DynamoDbSettings = None
           /\ \A f \in RequestRelational : request[f] = None
      [] OTHER ->
           /\ request.DynamoDbSettings = None
           /\ request.S3Settings = None
           /\ \A f \in RequestRequired : request[f] # None

C13_Witness ==
  /\ Finished("Create") /\ result = "ok"
  /\ request.kind = "create" /\ request.EngineName = "s3"
  /\ before.database_name = "db1" /\ before.username = "u1"
  /\ request.S3Settings # None
  /\ request.DatabaseName = None /\ request.Username = None

ModifyRelational ==
  {"DatabaseName", "Password", "Port", "ServerName", "Username", "SslMode",
   "ExtraConnectionAttributes"}

\* C14: a ModifyEndpoint request of an Update whose desired engine is
\* dynamodb or s3 carries no relational field, even when such a field differs
\* between the previous and the desired endpoint
C14_ModifyRequestOneVariant ==
  ( /\ Finished("Update")
    /\ Called("ModifyEndpoint")
    /\ PlannedEngine \in {"dynamodb", "s3"} )
  => \A f \in ModifyRelational : request[f] = None

LocalEmpty(fields) == \A f \in fields : d[f] = ZeroConfig[f]

\* C15: after a Read that finds the endpoint, the local endpoint has only the
\* variant of the remote engine kind populated: for dynamodb the role is the
\* remote's and every relational and s3 field is empty, and likewise for s3
\* and for the relational kinds
C15_OnlyMatchingVariantPopulated ==
  (ReadFound /\ result = "ok" /\ remote # None) =>
    CASE remote[1].EngineName = "dynamodb" ->
           /\ remote[1].DynamoDbSettings # None
           /\ d.service_access_role =
                OrZero(remote[1].DynamoDbSettings[1].ServiceAccessRoleArn, "")
           /\ LocalEmpty({"server_name", "port", "username", "database_name",
                          "bucket_name", "bucket_folder",
                          "extra_connection_attributes"})
      [] remote[1].EngineName = "s3" ->
           LocalEmpty({"server_name", "port", "username", "database_name"})
      [] OTHER ->
           LocalEmpty({"service_access_role", "bucket_name", "bucket_folder"})

\* C16: every Update that ends in success and in which at least one field
\* changed, the tags included, performs a Read (DescribeEndpoints, then the
\* tag fetch) before it returns
C16_ChangedUpdateReads ==
  (Finished("Update") /\ result = "ok" /\ changed # {})
  => \E i \in 1..(Len(calls) - 1) :
        /\ calls[i] = Call("DescribeEndpoints", "ok")
        /\ calls[i + 1] = Call("ListTagsForResource", "ok")

kCsvDelimiterEq == kCsvDelimiter \o <<"=">>

\* C17: the parser splits a key=value element on the first "=" only: a single
\* element csvDelimiter=v binds csvDelimiter to all of v, so that
\* csvDelimiter== binds it to "="
C17_SplitOnFirstEqualsOnly ==
  LET x == before.extra_connection_attributes
  IN ( /\ op = "Create" /\ request.kind = "create"
       /\ request.S3Settings # None
       /\ Len(x) > Len(kCsvDelimiterEq)
       /\ SubSeq(x, 1, Len(kCsvDelimiterEq)) = kCsvDelimiterEq
       /\ \A k \in 1..Len(x) : x[k] # ";" )
     => request.S3Settings[1].CsvDelimiter =
          Some(SubSeq(x, Len(kCsvDelimiterEq) + 1, Len(x)))

\* C18: parsing the s3 extra attributes in Create and in Update completes
\* without a fault for every input, so the operation goes on to its remote
\* call: it never ends faulted before any call was made
C18_ParsingNeverFaults ==
  (op \in {"Create", "Update"} /\ calls = <<>>) => result # "panic"

ExtraValues(s3) ==
  <<s3.CompressionType, s3.CsvDelimiter, s3.CsvRowDelimiter>>

\* C19: the s3 codec is stable on its own output: a successful Update of an
\* s3 endpoint whose local extra attributes are the string Read serialized
\* from the remote's three values, and which changes neither them nor the
\* engine, leaves the remote's three values as they were
C19_S3CodecStable ==
  [][ ( /\ op' = "Update" /\ result' = "ok"
        /\ remote # None /\ remote' # None
        /\ remote[1].EngineName = "s3" /\ remote[1].S3Settings # None
        /\ d.engine_name = "s3"
        /\ \A i \in 1..3 : ExtraValues(remote[1].S3Settings[1])[i] # None
        /\ d.extra_connection_attributes =
             SprintfExtra(remote[1].S3Settings[1].CompressionType[1],
                          remote[1].S3Settings[1].CsvDelimiter[1],
                          remote[1].S3Settings[1].CsvRowDelimiter[1])
        /\ changed' \cap {"engine_name", "extra_connection_attributes"} = {}
        /\ remote'[1].S3Settings # None )
      => ExtraValues(remote'[1].S3Settings[1]) = ExtraValues(remote[1].S3Settings[1])
    ]_vars

\* C20: Read never writes the local password: after a Read or an Import,
\* and after the Read that ends a Create, the local password is what it was
\* before; after an Update it is the previous one when the password did not
\* change and the one sent when it did
C20_ReadKeepsPassword ==
  /\ op \in {"Read", "Import", "Create"} => d.password = before.password
  /\ (op = "Update" /\ "password" \notin changed) => d.password = before.password
  /\ (op = "Update" /\ "password" \in changed /\ request.Password # None)
       => d.password = request.Password[1]

C20_Witness ==
  /\ Finished("Update") /\ result = "ok"
  /\ ReadFound
  /\ "password" \in changed
  /\ before.password = "p1" /\ d.password = "p2"

====
